---- MODULE Spec2Model ----
(***************************************************************************)
(* mod_incapsula: the post_read_request hook incapsula_modify_connection   *)
(* (src/mod_incapsula.c), which walks the Incap-Client-IP header from the  *)
(* nearest hop to the farthest and rewrites the connection's client        *)
(* address, with its per-connection record incapsula_conn_t.               *)
(*                                                                         *)
(* The build modelled is the one the file compiles to against httpd 2.4:   *)
(* AP_MODULE_MAGIC_AT_LEAST(20111130,0) holds and REMOTEIP_OPTIMIZED is    *)
(* not defined.                                                            *)
(*                                                                         *)
(* Strings are sequences of one-character strings; an address token is a   *)
(* single character standing for a dotted quad.  A C pointer that may be   *)
(* NULL is Null or the value; memory that apr_palloc returned and nobody   *)
(* wrote is Uninit.                                                        *)
(***************************************************************************)
EXTENDS Integers, Sequences, FiniteSets, TLC

VARIABLES
    config,      \* incapsula_config_t: proxymatch_ip, deny_all
    peer,        \* the address the connection was accepted from
    c,           \* conn_rec: client_addr, client_ip, remote_host
    conn,        \* incapsula_conn_t stored as pool userdata, or Null
    r,           \* request_rec: header, useragent_addr, useragent_ip, note
    remote,      \* local: the part of the header not yet consumed
    proxy_ips,   \* local: the list of proxy addresses, or Null
    temp_sa,     \* local: the sockaddr the last parse produced
    internal,    \* local: the flag of the last entry that matched
    pc,          \* where the handler stands
    status,      \* what the handler returned
    iter,        \* number of completed passes through the while loop
    entry,       \* the connection and its record as the request found them
    halt,        \* how the walk of this request ended
    prev,        \* the result of the request before, when this one repeats it
    accepted     \* the addresses promoted, each vouched for by a matching
                 \* entry, in the pass the connection's address comes from

vars == <<config, peer, c, conn, r, remote, proxy_ips, temp_sa, internal, pc,
          status, iter, entry, halt, prev, accepted>>

----------------------------------------------------------------------------
(* Bounds of the model *)

\* The longest trusted-proxy list a configuration holds.
MaxTable == 2
\* The most comma-separated fields the header of a connection's first
\* request holds; the requests that follow it on a connection that lives
\* on hold one field less.
MaxTokens == 2

----------------------------------------------------------------------------
(* Values *)

Null == [null |-> TRUE]
Uninit == [uninit |-> TRUE]

\* A char* that is not NULL: the characters it points to.
Str(s) == [str |-> s]

\* A sockaddr: its family and the first two bytes of the address, which are
\* all the handler reads (addrbyte[0], addrbyte[1], s6_addr[0]).
Sockaddr(f, x, y) == [family |-> f, b0 |-> x, b1 |-> y]

AddrP == Sockaddr("INET", 199, 83)
AddrQ == Sockaddr("INET", 198, 51)
AddrC == Sockaddr("INET", 203, 0)
AddrX == Sockaddr("INET", 10, 0)

Addrs == {AddrP, AddrQ, AddrC, AddrX}

\* The text of each address, as it stands in a header.
AddrOfText == [t \in {"P", "Q", "C", "X"} |->
                 CASE t = "P" -> AddrP
                   [] t = "Q" -> AddrQ
                   [] t = "C" -> AddrC
                   [] t = "X" -> AddrX]

\* apr_sockaddr_ip_get: the text of an address.
IpText(sa) == CHOOSE t \in DOMAIN AddrOfText : AddrOfText[t] = sa

\* The characters a header is made of: the separators, the address texts
\* that a forwarded header carries, and a character no address holds.
Comma == ","
Space == " "
TokenTexts == {"Q", "C", "X", "z"}

\* One comma-separated field: an address text, or nothing.
Fields == {<<t>> : t \in TokenTexts} \cup {<<>>}

RECURSIVE HeadersOf(_)
HeadersOf(n) ==
    IF n = 1 THEN Fields
    ELSE {h \o <<Comma>> \o f : h \in HeadersOf(n - 1), f \in Fields}

\* What apr_table_get(r->headers_in, config->header_name) can return:
\* NULL, or a value of at most n fields.
HeaderValues(n) ==
    {Null} \cup {Str(h) : h \in UNION {HeadersOf(k) : k \in 1..n}}

\* Fields as a header carries them when its writer pads them: spaces
\* alone, and an address text with a space before or after it.
PaddedFields ==
    Fields \cup {<<Space>>, <<Space, Space>>, <<Space, "Q">>, <<"Q", Space>>}

RECURSIVE PaddedHeadersOf(_)
PaddedHeadersOf(n) ==
    IF n = 1 THEN PaddedFields
    ELSE {h \o <<Comma>> \o f : h \in PaddedHeadersOf(n - 1),
                                 f \in PaddedFields}

\* The values of at most n fields, padded or not, that apr_table_get can
\* return.
PaddedHeaderValues(n) ==
    {Str(h) : h \in UNION {PaddedHeadersOf(k) : k \in 1..n}}

\* The subnets a directive can name, as the set of addresses each holds.
Subnets == {{AddrP, AddrQ}, {AddrQ, AddrX}}

\* incapsula_proxymatch_t
ProxyMatch == [ip : Subnets, internal : BOOLEAN]

\* The lists a configuration holds: set_ic_default_proxies puts the default
\* entries in every one, and the directives only add to them.
Tables == UNION {[1..n -> ProxyMatch] : n \in 1..MaxTable}

\* A list with nothing in it.  No configuration holds one, but the handler
\* is written for it: the test after the for loop starts with `i &&`.
NoList == <<>>

\* The peers a connection can come from.
Peers == {AddrP, AddrQ}

----------------------------------------------------------------------------
(* The pure parts of one pass of the while loop *)

\* apr_ipsubnet_test: whether the subnet holds the address.
SubnetTest(ip, sa) == sa \in ip

\* The loop if it went on after a match and kept the last entry that held
\* the address.
RECURSIVE MatchLoopLast(_, _, _)
MatchLoopLast(match, sa, i) ==
    IF i >= Len(match) THEN i
    ELSE IF SubnetTest(match[i + 1].ip, sa)
            /\ MatchLoopLast(match, sa, i + 1) >= Len(match) THEN i
    ELSE MatchLoopLast(match, sa, i + 1)

\* The for loop over config->proxymatch_ip: the value of i when it ends,
\* counted from 0 as the code counts it; nelts when no entry matched.
RECURSIVE MatchLoop(_, _, _)
MatchLoop(match, sa, i) ==
    IF i >= Len(match) THEN i
    ELSE IF SubnetTest(match[i + 1].ip, sa) THEN i
    ELSE MatchLoop(match, sa, i + 1)

\* Whether the for loop left by its break.
Matched(match, sa) == MatchLoop(match, sa, 0) < Len(match)

\* The local `internal` if the loop never took an entry's flag.
InternalNeverTaken(match, sa, before) == before

\* The local `internal` after the for loop: the flag of the entry that
\* matched, and what it held before when none did.
InternalAfter(match, sa, before) ==
    IF Matched(match, sa) THEN match[MatchLoop(match, sa, 0) + 1].internal
    ELSE before

\* The test after the for loop without its `i &&`.
DistrustedAlsoNoList(match, sa) == MatchLoop(match, sa, 0) >= Len(match)

\* if (i && i >= config->proxymatch_ip->nelts)
Distrusted(match, sa) ==
    LET i == MatchLoop(match, sa, 0) IN i # 0 /\ i >= Len(match)

\* strrchr(remote, ','): the index of the last comma, 0 when there is none.
RECURSIVE StrRChr(_, _)
StrRChr(s, n) ==
    IF n = 0 THEN 0
    ELSE IF s[n] = Comma THEN n
    ELSE StrRChr(s, n - 1)

\* `remote` if the cut left the field in it.
CutRemoteKeepsField(s) ==
    IF StrRChr(s, Len(s)) = 0 THEN Null ELSE Str(s)

\* `remote` after the cut: NULL when there was no comma, and what stood
\* before the last comma otherwise.
CutRemote(s) ==
    LET k == StrRChr(s, Len(s)) IN
    IF k = 0 THEN Null ELSE Str(SubSeq(s, 1, k - 1))

\* What parse_remote points to right after the cut.
CutField(s) == SubSeq(s, StrRChr(s, Len(s)) + 1, Len(s))

\* while (*parse_remote == ' ') ++parse_remote: how many spaces it skips.
RECURSIVE LeadingSpaces(_, _)
LeadingSpaces(f, n) ==
    IF n < Len(f) /\ f[n + 1] = Space THEN LeadingSpaces(f, n + 1) ELSE n

\* The eos loop: the field's end after the trailing spaces are overwritten
\* with NUL, never going below the first character parse_remote points to.
RECURSIVE TrimEnd(_, _, _)
TrimEnd(f, from, eos) ==
    IF eos >= from /\ f[eos] = Space THEN TrimEnd(f, from, eos - 1) ELSE eos

\* parse_remote as a string once both loops ran.
ParseRemote(s) ==
    LET f == CutField(s)
        from == LeadingSpaces(f, 0) + 1
    IN  SubSeq(f, from, TrimEnd(f, from, Len(f)))

\* eos < parse_remote
EmptyField(s) == ParseRemote(s) = <<>>

\* The characters of the buffer from the cut to its first NUL: the leading
\* spaces are still there, the trailing ones are gone.
FieldInBuffer(s) ==
    LET f == CutField(s)
        from == LeadingSpaces(f, 0) + 1
    IN  SubSeq(f, 1, TrimEnd(f, from, Len(f)))

\* `remote` when the walk stops, if the comma were not written back.
RestoreRemoteWithoutField(s) ==
    IF CutRemote(s) # Null THEN CutRemote(s) ELSE Str(ParseRemote(s))

\* `remote` when the walk stops at this field: the comma is written back
\* over the NUL of the cut, or remote takes parse_remote.
RestoreRemote(s) ==
    IF CutRemote(s) # Null
    THEN Str(CutRemote(s).str \o <<Comma>> \o FieldInBuffer(s))
    ELSE Str(ParseRemote(s))

\* apr_sockaddr_info_get on a field: the address it names, or Null when
\* the call fails.
SockaddrInfoGet(tok) ==
    IF Len(tok) = 1 /\ tok[1] \in DOMAIN AddrOfText THEN AddrOfText[tok[1]]
    ELSE Null

\* The byte itself, as if the mask kept every bit.
WholeByte(b) == b

\* (addrbyte[1] & 0xf0)
HighNibble(b) == (b \div 16) * 16

\* (s6_addr[0] & 0xe0)
TopThreeBits(b) == (b \div 32) * 32

\* The test under `!internal &&`: an RFC3330 private IPv4 address, or an
\* IPv6 address outside 2000::/3.
PrivateOrNonsensical(sa) ==
    \/ /\ sa.family = "INET"
       /\ \/ sa.b0 = 10
          \/ sa.b0 = 127
          \/ (sa.b0 = 169 /\ sa.b1 = 254)
          \/ (sa.b0 = 172 /\ HighNibble(sa.b1) = 16)
          \/ (sa.b0 = 192 /\ sa.b1 = 168)
    \/ /\ sa.family = "INET6"
       /\ TopThreeBits(sa.b0) # 32

\* The list if a promotion wrote the hop's address in front of it.
AppendProxyIpInFront(list, ip) ==
    IF list # Null THEN Str(ip.str \o <<Comma, Space>> \o list.str) ELSE ip

\* The list if a promotion wrote the hop's address into it twice.
AppendProxyIpTwice(list, ip) ==
    IF list # Null
    THEN Str(list.str \o <<Comma, Space>> \o ip.str \o <<Comma, Space>> \o ip.str)
    ELSE Str(ip.str \o <<Comma, Space>> \o ip.str)

\* proxy_ips with the text of one more address.
AppendProxyIp(list, ip) ==
    IF list # Null THEN Str(list.str \o <<Comma, Space>> \o ip.str) ELSE ip

----------------------------------------------------------------------------
(* State of one connection and of the request it is serving *)

\* A pointer to a sockaddr: which object it points to (the connection's
\* own, one allocated from r->pool, or conn->proxied_addr) and what that
\* object holds.
Ptr(where, sa) == [ptr |-> where, sa |-> sa]

\* A request_rec this handler has not touched.
FreshRequest ==
    [header |-> Null, useragent_addr |-> Null, useragent_ip |-> Null,
     note |-> Null]

\* No walk has ended in this request.
NoHalt == [why |-> "none"]

\* The process before a request arrives: the locals hold nothing.
Idle ==
    /\ r = FreshRequest
    /\ remote = Null
    /\ proxy_ips = Null
    /\ temp_sa = Null
    /\ internal = FALSE
    /\ status = "none"
    /\ iter = 0
    /\ entry = Null
    /\ halt = NoHalt
    /\ prev = Null

\* A connection just accepted, under a configuration whose list is one of
\* tables.
InitWith(tables) ==
    /\ config \in [proxymatch_ip : tables, deny_all : BOOLEAN]
    /\ peer \in Peers
    /\ c = [client_addr |-> Ptr("orig", peer),
            client_ip |-> Str(<<IpText(peer)>>),
            remote_host |-> Null]
    /\ conn = Null
    /\ accepted = {}
    /\ pc = "idle"
    /\ Idle

Init == InitWith(Tables)

\* The same, the list with nothing in it included.
InitAnyList == InitWith(Tables \cup {NoList})

\* strcmp(remote, conn->prior_remote) == 0.  prior_remote is written only
\* by the fixups; before that it is whatever apr_palloc returned, and the
\* comparison reads through it.
SameAsPrior(h) ==
    IF conn.prior_remote = Uninit THEN {"same", "differ", "fault"}
    ELSE IF h = conn.prior_remote THEN {"same"}
    ELSE {"differ"}

\* The connection if the handler left the rewritten address in place.
NotReverted == c

\* c->client_addr = conn->orig_addr; c->client_ip = conn->orig_ip
Reverted ==
    IF conn = Null THEN c
    ELSE [c EXCEPT !.client_addr = conn.orig_addr, !.client_ip = conn.orig_ip]

\* The result a request leaves behind, for the next one to compare with.
Result ==
    [status |-> status,
     client_addr |-> c.client_addr.sa,
     client_ip |-> c.client_ip,
     proxy_ips |-> r.note,
     remainder |-> IF halt.why = "ditto" THEN conn.proxied_remote ELSE remote]

\* The no-header test if it let a trusted peer through.
NoHeaderStatusTrustedPass ==
    IF config.deny_all /\ ~Matched(config.proxymatch_ip, c.client_addr.sa)
    THEN "403" ELSE "OK"

\* if (!remote): what the handler returns when the request has no header.
NoHeaderStatus == IF config.deny_all THEN "403" ELSE "OK"

\* The handler from its entry to the while loop, for header value h; keep
\* is what the request before left to compare with.
Enter(h, keep) ==
    /\ r' = [FreshRequest EXCEPT !.header = h]
    /\ entry' = [conn |-> conn, c |-> c]
    /\ prev' = keep
    /\ proxy_ips' = Null
    /\ internal' = FALSE
    /\ iter' = 0
    /\ UNCHANGED <<config, peer, conn>>
    /\ \E cmp \in (IF conn = Null \/ h = Null THEN {"differ"} ELSE SameAsPrior(h)) :
         \/ /\ cmp = "fault"
            /\ pc' = "crashed"
            /\ status' = "SIGSEGV"
            /\ halt' = NoHalt
            /\ remote' = h
            /\ temp_sa' = Null
            /\ c' = c
            /\ accepted' = accepted
         \/ /\ cmp = "same"
            /\ pc' = "ditto"
            /\ status' = "none"
            /\ halt' = [why |-> "ditto"]
            /\ remote' = h
            /\ temp_sa' = Null
            /\ c' = c
            /\ accepted' = accepted
         \/ /\ cmp = "differ"
            /\ c' = Reverted
            /\ accepted' = {}
            /\ halt' = NoHalt
            /\ remote' = h
            /\ IF h = Null
               THEN /\ status' = NoHeaderStatus
                    /\ pc' = "done"
                    /\ temp_sa' = Null
               ELSE /\ status' = "none"
                    /\ pc' = "walk"
                    /\ temp_sa' = Reverted.client_addr

\* A request arrives on a connection no request has rewritten.
FirstRequest ==
    /\ pc = "idle"
    /\ conn = Null
    /\ \E h \in HeaderValues(MaxTokens) : Enter(h, Null)

\* A request whose header may be padded arrives on a connection no request
\* has rewritten.
FirstRequestPadded ==
    /\ pc = "idle"
    /\ conn = Null
    /\ \E h \in PaddedHeaderValues(MaxTokens) : Enter(h, Null)

\* A request arrives on the connection, whatever came before.
BeginRequest ==
    /\ pc = "idle"
    /\ \E h \in HeaderValues(MaxTokens - 1) : Enter(h, Null)

\* The next request on the connection carries the header value of the one
\* just served.
RepeatRequest ==
    /\ pc = "done"
    /\ Enter(r.header, Result)

----------------------------------------------------------------------------
(* One pass of the while loop, by the way it leaves the loop body *)

\* What the walk stopped at: the field, the hop that was current, and the
\* locals as the pass found them.
Halted(why) ==
    [why |-> why, token |-> ParseRemote(remote.str), hop |-> c.client_addr.sa,
     ips |-> proxy_ips, before |-> remote, pass |-> iter]

\* The hop the pass checks, and what the check yields.
HopMatched == Matched(config.proxymatch_ip, c.client_addr.sa)
HopDistrusted == Distrusted(config.proxymatch_ip, c.client_addr.sa)
HopInternal == InternalAfter(config.proxymatch_ip, c.client_addr.sa, internal)

\* What the field of this pass parses to.
FieldAddr == SockaddrInfoGet(ParseRemote(remote.str))

\* The current hop is in no entry and deny_all is set: return 403.
WalkForbidden ==
    /\ pc = "walk"
    /\ HopDistrusted
    /\ config.deny_all
    /\ status' = "403"
    /\ pc' = "done"
    /\ halt' = [Halted("forbidden") EXCEPT !.token = <<>>]
    /\ UNCHANGED <<config, peer, accepted, c, conn, r, remote, proxy_ips, temp_sa, internal,
                   iter, entry, prev>>

\* The current hop is in no entry: break.
WalkDistrusted ==
    /\ pc = "walk"
    /\ HopDistrusted
    /\ ~config.deny_all
    /\ pc' = "post"
    /\ halt' = [Halted("distrusted") EXCEPT !.token = <<>>]
    /\ UNCHANGED <<config, peer, accepted, c, conn, r, remote, proxy_ips, temp_sa, internal,
                   status, iter, entry, prev>>

\* The field is empty once trimmed: break, with the field put back.
WalkEmptyField ==
    /\ pc = "walk"
    /\ ~HopDistrusted
    /\ EmptyField(remote.str)
    /\ internal' = HopInternal
    /\ remote' = RestoreRemote(remote.str)
    /\ pc' = "post"
    /\ halt' = Halted("empty")
    /\ UNCHANGED <<config, peer, accepted, c, conn, r, proxy_ips, temp_sa, status, iter,
                   entry, prev>>

\* apr_sockaddr_info_get fails: break, with the field put back.  The call
\* was handed &temp_sa, so temp_sa holds what the callee left there: the
\* value it had, or the NULL that APR stores before it looks at the name.
WalkUnparsed ==
    /\ pc = "walk"
    /\ ~HopDistrusted
    /\ ~EmptyField(remote.str)
    /\ FieldAddr = Null
    /\ internal' = HopInternal
    /\ temp_sa' \in {temp_sa, Null}
    /\ remote' = RestoreRemote(remote.str)
    /\ pc' = "post"
    /\ halt' = Halted("unparsed")
    /\ UNCHANGED <<config, peer, accepted, c, conn, r, proxy_ips, status, iter, entry, prev>>

\* The field is a private address and the hop is not internal: break, with
\* the field put back.  temp_sa already is the parsed address.
WalkPrivate ==
    /\ pc = "walk"
    /\ ~HopDistrusted
    /\ ~EmptyField(remote.str)
    /\ FieldAddr # Null
    /\ ~HopInternal
    /\ PrivateOrNonsensical(FieldAddr)
    /\ internal' = HopInternal
    /\ temp_sa' = Ptr("temp", FieldAddr)
    /\ remote' = RestoreRemote(remote.str)
    /\ pc' = "post"
    /\ halt' = Halted("private")
    /\ UNCHANGED <<config, peer, accepted, c, conn, r, proxy_ips, status, iter, entry, prev>>

\* The incapsula_conn_t the first promotion of a connection allocates.
NewConn ==
    [prior_remote |-> Uninit, orig_ip |-> c.client_ip,
     orig_addr |-> c.client_addr, proxy_ips |-> Uninit,
     proxied_remote |-> Uninit, proxied_ip |-> Uninit,
     proxied_addr |-> Uninit]

\* The list if every vouching hop were appended, internal or not.
PromotedProxyIpsAlways(int) == AppendProxyIp(proxy_ips, c.client_ip)

\* proxy_ips after a promotion vouched for by the current hop.
PromotedProxyIps(int) ==
    IF ~int THEN AppendProxyIp(proxy_ips, c.client_ip) ELSE proxy_ips

\* The field is accepted: the current hop goes to proxy_ips unless it is
\* internal, and the parsed address becomes the connection's.
WalkPromote ==
    /\ pc = "walk"
    /\ ~HopDistrusted
    /\ ~EmptyField(remote.str)
    /\ FieldAddr # Null
    /\ ~(~HopInternal /\ PrivateOrNonsensical(FieldAddr))
    /\ internal' = HopInternal
    /\ temp_sa' = Ptr("temp", FieldAddr)
    /\ conn' = IF conn = Null THEN NewConn ELSE conn
    /\ proxy_ips' = PromotedProxyIps(HopInternal)
    /\ c' = [c EXCEPT !.client_addr = Ptr("temp", FieldAddr),
                      !.client_ip = Str(<<IpText(FieldAddr)>>)]
    /\ remote' = CutRemote(remote.str)
    /\ iter' = iter + 1
    /\ accepted' = IF HopMatched THEN accepted \cup {FieldAddr} ELSE accepted
    /\ pc' = IF CutRemote(remote.str) = Null THEN "post" ELSE "walk"
    /\ halt' = IF CutRemote(remote.str) = Null
               THEN [Halted("exhausted") EXCEPT !.pass = iter + 1]
               ELSE NoHalt
    /\ UNCHANGED <<config, peer, r, status, entry, prev>>

----------------------------------------------------------------------------
(* After the loop *)

\* if (!conn || (c->client_addr == conn->orig_addr)): a comparison of
\* pointers.
NothingHappenedTest ==
    IF conn = Null THEN TRUE ELSE c.client_addr.ptr = conn.orig_addr.ptr

\* Nothing happened: return OK.
NothingHappened ==
    /\ pc = "post"
    /\ NothingHappenedTest
    /\ status' = "OK"
    /\ pc' = "done"
    /\ UNCHANGED <<config, peer, accepted, c, conn, r, remote, proxy_ips, temp_sa, internal,
                   iter, entry, halt, prev>>

\* The incapsula_conn_t once the fixups stored the results of the pass.
FixedConn ==
    [conn EXCEPT !.proxied_ip = c.client_ip,
                 !.proxied_addr = temp_sa.sa,
                 !.proxied_remote = remote,
                 !.prior_remote = r.header,
                 !.proxy_ips = proxy_ips]

\* The fixups: the results of the pass move to the connection's record,
\* and the connection's address points into that record.  When the last
\* parse left temp_sa NULL, memcpy reads through it once the lines before
\* it ran.
Fixups ==
    /\ pc = "post"
    /\ ~NothingHappenedTest
    /\ r' = [r EXCEPT !.useragent_ip = c.client_ip,
                      !.useragent_addr = c.client_addr]
    /\ IF temp_sa = Null
       THEN /\ conn' = [conn EXCEPT !.proxied_ip = c.client_ip]
            /\ c' = c
            /\ status' = "SIGSEGV"
            /\ pc' = "crashed"
       ELSE /\ conn' = FixedConn
            /\ c' = [c EXCEPT !.client_addr = Ptr("proxied", temp_sa.sa),
                              !.remote_host = Null]
            /\ status' = status
            /\ pc' = "ditto"
    /\ UNCHANGED <<config, peer, accepted, remote, proxy_ips, temp_sa, internal, iter, entry,
                   halt, prev>>

\* ditto_request_rec: the cached list goes to the request's notes.  A
\* record whose fixups never ran holds no list, only what apr_palloc
\* returned: the test and the log line read through it.
DittoRequestRec ==
    /\ pc = "ditto"
    /\ IF conn.proxy_ips = Uninit
       THEN \E out \in {"null", "garbage", "fault"} :
              /\ r' = [r EXCEPT !.note = IF out = "null" THEN Null ELSE Uninit]
              /\ status' = IF out = "fault" THEN "SIGSEGV" ELSE "OK"
              /\ pc' = IF out = "fault" THEN "crashed" ELSE "done"
       ELSE /\ r' = [r EXCEPT !.note = conn.proxy_ips]
            /\ status' = "OK"
            /\ pc' = "done"
    /\ UNCHANGED <<config, peer, accepted, c, conn, remote, proxy_ips, temp_sa, internal,
                   iter, entry, halt, prev>>

\* The request is over and its pool is gone.
EndRequest ==
    /\ pc = "done"
    /\ pc' = "idle"
    /\ r' = FreshRequest
    /\ remote' = Null
    /\ proxy_ips' = Null
    /\ temp_sa' = Null
    /\ internal' = FALSE
    /\ status' = "none"
    /\ iter' = 0
    /\ entry' = Null
    /\ halt' = NoHalt
    /\ prev' = Null
    /\ UNCHANGED <<config, peer, accepted, c, conn>>

\* What one request does once it has entered.
Serve ==
    \/ WalkForbidden
    \/ WalkDistrusted
    \/ WalkEmptyField
    \/ WalkUnparsed
    \/ WalkPrivate
    \/ WalkPromote
    \/ NothingHappened
    \/ Fixups
    \/ DittoRequestRec
    \/ EndRequest

\* A connection and the requests it carries one after the other.
Next == BeginRequest \/ RepeatRequest \/ Serve

Spec == Init /\ [][Next]_vars

\* A connection up to the request that first rewrites it, and the repeats
\* of that request.
NextWalk == FirstRequest \/ RepeatRequest \/ Serve

SpecWalk == Init /\ [][NextWalk]_vars

\* The same requests under every list the handler is written for.
SpecAnyList == InitAnyList /\ [][NextWalk]_vars

\* A connection just accepted under a list of one entry.
InitOneEntry == InitWith([1..1 -> ProxyMatch])

\* The first request of a connection and its repeats under a list of one
\* entry, with the handler running on once it was entered: it is
\* straight-line code on the worker that serves the request and waits for
\* nothing.
SpecWalkFair == InitOneEntry /\ [][NextWalk]_vars /\ WF_vars(Serve)

\* The first request of a connection and its repeats, the header padded or
\* not.
NextPadded == FirstRequestPadded \/ RepeatRequest \/ Serve

SpecPadded == Init /\ [][NextPadded]_vars

\* What an unsigned char holds.
Byte == 0..255

\* Every sockaddr as far as the handler reads one: an IPv4 address by its
\* first two bytes, an IPv6 address by its first byte.
AnySockaddr ==
    {Sockaddr("INET", a, b) : a \in Byte, b \in Byte}
        \cup {Sockaddr("INET6", a, 0) : a \in Byte}

\* The handler inside a pass of the while loop, right after
\* apr_sockaddr_info_get succeeded: temp_sa is the address the field named,
\* internal the flag the match loop left.
InitParsed ==
    /\ config = [proxymatch_ip |-> <<[ip |-> {AddrP, AddrQ}, internal |-> FALSE]>>,
                 deny_all |-> FALSE]
    /\ peer = AddrP
    /\ c = [client_addr |-> Ptr("orig", peer),
            client_ip |-> Str(<<IpText(peer)>>),
            remote_host |-> Null]
    /\ conn = Null
    /\ accepted = {}
    /\ r = FreshRequest
    /\ remote = Null
    /\ proxy_ips = Null
    /\ status = "none"
    /\ iter = 0
    /\ entry = Null
    /\ halt = NoHalt
    /\ prev = Null
    /\ pc = "parsed"
    /\ internal \in BOOLEAN
    /\ \E sa \in AnySockaddr : temp_sa = Ptr("temp", sa)

\* The test on the parsed address: the pass breaks when the hop is not
\* internal and the address is private or nonsensical, and goes on to the
\* promotion otherwise.
Classify ==
    /\ pc = "parsed"
    /\ pc' = "classified"
    /\ halt' = IF ~internal /\ PrivateOrNonsensical(temp_sa.sa)
               THEN [why |-> "private"]
               ELSE [why |-> "promote"]
    /\ UNCHANGED <<config, peer, c, conn, r, remote, proxy_ips, temp_sa,
                   internal, status, iter, entry, prev, accepted>>

\* The classification alone, over every address.
SpecClassify == InitParsed /\ [][Classify]_vars

\* c->remote_host as the server fills it between two runs of the handler:
\* the host name a reverse lookup of the connection's current address
\* gave.  The handler's only write to the field is the NULL of the fixups.
HostNameOf(sa) == Str(<<"h", IpText(sa)>>)

\* The server looks the connection's address up and keeps the name.
RemoteHostLookup ==
    /\ pc = "idle"
    /\ c.remote_host = Null
    /\ c' = [c EXCEPT !.remote_host = HostNameOf(c.client_addr.sa)]
    /\ UNCHANGED <<config, peer, conn, r, remote, proxy_ips, temp_sa, internal,
                   pc, status, iter, entry, halt, prev, accepted>>

\* A connection whose address the server looks up between requests.
NextHost == BeginRequest \/ RepeatRequest \/ Serve \/ RemoteHostLookup

SpecHost == Init /\ [][NextHost]_vars

----------------------------------------------------------------------------
(* Notions the properties are stated in *)

\* The entries of the list that hold an address, by position.
EntriesWith(sa) ==
    {k \in 1..Len(config.proxymatch_ip) : sa \in config.proxymatch_ip[k].ip}

\* The address is a trusted proxy: some entry of the list holds it.
Trusted(sa) == EntriesWith(sa) # {}

\* The flag of the first entry that holds a trusted address.
FlaggedInternal(sa) ==
    LET k == CHOOSE j \in EntriesWith(sa) : \A m \in EntriesWith(sa) : j <= m
    IN  config.proxymatch_ip[k].internal

\* A request returned on a connection that no earlier request rewrote.
ServedFresh == pc = "done" /\ entry # Null /\ entry.conn = Null

----------------------------------------------------------------------------
(* C1 *)

----------------------------------------------------------------------------
(* C2 *)

\* C2: only the check of the physical peer yields 403; once a field has
\* been promoted, a hop in no entry stops the walk and the request passes.
C2_OnlyFirstCheckForbids ==
    (pc = "done" /\ status = "403" /\ r.header # Null) => iter = 0

----------------------------------------------------------------------------
(* C3 *)

\* C3 as stated: with no header and deny-all set, the request is rejected
\* only when the physical peer is in no entry; from a trusted peer it
\* passes with the peer as client address and no consumed hops.
C3_NoHeaderTrustedPasses ==
    (pc = "done" /\ r.header = Null /\ config.deny_all)
    => /\ status = "403" <=> ~Trusted(peer)
       /\ Trusted(peer) =>
            (status = "OK" /\ c.client_addr.sa = peer /\ r.note = Null)

\* C3 amended: with no header, the request is rejected whenever deny-all
\* is set, trusted peer or not, and passes otherwise; either way the
\* connection's address is the physical peer's own and no hop is consumed.
C3_NoHeaderDeniedWhateverPeer ==
    (pc = "done" /\ r.header = Null)
    => /\ status = (IF config.deny_all THEN "403" ELSE "OK")
       /\ c.client_addr = Ptr("orig", peer)
       /\ c.client_ip = Str(<<IpText(peer)>>)
       /\ proxy_ips = Null
       /\ r.note = Null

\* A request with no header from a trusted peer is rejected, on a
\* connection whose address an earlier request had rewritten.
C3_Witness ==
    /\ pc = "done"
    /\ r.header = Null
    /\ config.deny_all
    /\ Trusted(peer)
    /\ status = "403"
    /\ entry.conn # Null
    /\ entry.c.client_addr.sa # peer

----------------------------------------------------------------------------
(* C4 *)

\* C4: when the vouching hop is a trusted proxy not flagged internal and
\* the next field parses to a private address, the walk halts, the client
\* address stays the vouching hop, nothing is added to the consumed
\* proxies, and the field is left in the unconsumed remainder.
C4_PrivateFieldRejected ==
    (pc = "done" /\ halt.why = "private"
        /\ Trusted(halt.hop) /\ ~FlaggedInternal(halt.hop))
    => /\ status = "OK"
       /\ c.client_addr.sa = halt.hop
       /\ proxy_ips = halt.ips
       /\ remote = halt.before

----------------------------------------------------------------------------
(* C5 *)

\* C5: between the steps of the handler and after every request, whatever
\* its outcome, the connection's client address is the physical peer or an
\* address that a field of the pass it comes from parsed to, that passed
\* the classification and that a hop in the trust table vouched for.
C5_ClientAddrIsPeerOrVouched ==
    pc \in {"idle", "done"} =>
        (c.client_addr.sa = peer \/ c.client_addr.sa \in accepted)

----------------------------------------------------------------------------
(* C6 *)

\* C6: a request that carries the header value of the request before it on
\* the connection yields the same status, client address, consumed
\* proxies and unconsumed remainder as that request did.
C6_RepeatYieldsSame ==
    (pc \in {"done", "crashed"} /\ prev # Null) => Result = prev

----------------------------------------------------------------------------
(* C7 *)

\* The request found a record on the connection and its header value is
\* not the recorded one, or it has no header.
HeaderChanged ==
    /\ entry # Null
    /\ entry.conn # Null
    /\ \/ r.header = Null
       \/ (entry.conn.prior_remote # Uninit
            /\ r.header # entry.conn.prior_remote)

\* C7: when a record exists and the header value differs from the recorded
\* one, or is absent, the connection's address is the physical peer's own
\* again before any field is processed: the first trust check of the new
\* walk is made against the physical peer.
C7_RevertOnChange ==
    (HeaderChanged /\ iter = 0 /\ pc \in {"walk", "post", "done"})
    => /\ c.client_addr = Ptr("orig", peer)
       /\ c.client_ip = Str(<<IpText(peer)>>)

\* A walk is about to make its first trust check on a connection whose
\* address the request before had rewritten to another address.
C7_Witness ==
    /\ HeaderChanged
    /\ pc = "walk"
    /\ iter = 0
    /\ entry.c.client_addr.ptr = "proxied"
    /\ entry.c.client_addr.sa # peer
    /\ Trusted(entry.c.client_addr.sa) # Trusted(peer)

----------------------------------------------------------------------------
(* C8 *)

\* C8: a request that finds a record, carries a header value other than
\* the recorded one and is not rejected leaves the record holding its own
\* header value and the client address, consumed proxies and remainder of
\* its own pass, also when that pass promoted nothing.
C8_RecordOverwrittenOnChange ==
    (pc = "done" /\ status = "OK" /\ HeaderChanged /\ r.header # Null)
    => /\ conn.prior_remote = r.header
       /\ conn.proxied_addr = c.client_addr.sa
       /\ conn.proxy_ips = proxy_ips
       /\ conn.proxied_remote = remote

----------------------------------------------------------------------------
(* C9 *)

\* C9: a field that does not parse as an address stops the walk without an
\* error: the handler returns OK, and the client address and the consumed
\* proxies are those the promotions before that field had reached.
C9_UnparsedFieldIsNoError ==
    (halt.why = "unparsed" /\ pc \in {"done", "crashed"})
    => /\ status = "OK"
       /\ c.client_addr.sa = halt.hop
       /\ proxy_ips = halt.ips

----------------------------------------------------------------------------
(* C10 *)

\* The text of an address as a consumed-proxies list shows it.
Listed(list, sa) ==
    IF list = Null THEN Str(<<IpText(sa)>>)
    ELSE Str(list.str \o <<Comma, Space, IpText(sa)>>)

\* C10: each promotion appends the vouching hop's address to the consumed
\* proxies exactly when the first entry that holds the hop is not flagged
\* internal; a hop whose entry is flagged internal is not appended.
C10_AppendUnlessInternal ==
    [][(iter' = iter + 1 /\ Trusted(c.client_addr.sa))
        => proxy_ips' = (IF FlaggedInternal(c.client_addr.sa) THEN proxy_ips
                         ELSE Listed(proxy_ips, c.client_addr.sa))]_vars

\* Two promotions in one walk, one vouched for by an internal hop and one
\* by an external hop: one address is listed.
C10_Witness ==
    /\ iter = 2
    /\ proxy_ips # Null
    /\ Len(proxy_ips.str) = 1
    /\ Trusted(peer)
    /\ FlaggedInternal(peer)

----------------------------------------------------------------------------
(* C11 *)

\* How many commas a string holds among its first n characters.
RECURSIVE CountCommas(_, _)
CountCommas(s, n) ==
    IF n = 0 THEN 0
    ELSE CountCommas(s, n - 1) + (IF s[n] = Comma THEN 1 ELSE 0)

\* The number of comma-separated fields of a header value.
NumFields(h) == CountCommas(h.str, Len(h.str)) + 1

\* The number of addresses a list of proxies holds.
NumListed(list) ==
    IF list = Null THEN 0 ELSE CountCommas(list.str, Len(list.str)) + 1

\* C11: at every step of a pass and after it, the list of consumed proxies
\* holds at most as many addresses as the header value of the pass has
\* comma-separated fields; so does the list the fixups store in the
\* connection's record, against the header value stored with it, and the
\* list a request's notes receive.
C11_ConsumedAtMostFields ==
    /\ (r.header # Null) => NumListed(proxy_ips) <= NumFields(r.header)
    /\ (r.header # Null /\ r.note # Uninit)
            => NumListed(r.note) <= NumFields(r.header)
    /\ (conn # Null /\ conn.prior_remote # Uninit)
            => NumListed(conn.proxy_ips) <= NumFields(conn.prior_remote)

\* A pass over a header of two fields ends with two consumed proxies.
C11_Witness ==
    /\ pc = "done"
    /\ r.header # Null
    /\ NumFields(r.header) = 2
    /\ r.note # Null
    /\ r.note # Uninit
    /\ NumListed(r.note) = 2
    /\ iter = 2

----------------------------------------------------------------------------
(* C12 *)

\* What is left of a header value once its k rightmost fields were cut off.
RECURSIVE Remaining(_, _)
Remaining(h, k) ==
    IF k = 0 THEN h ELSE CutRemote(Remaining(h, k - 1).str)

\* The hop that vouches in pass k + 1 of a walk in which every pass so far
\* promoted: the physical peer, then the address of each field from the
\* right.
HopAt(k) ==
    IF k = 0 THEN peer
    ELSE SockaddrInfoGet(ParseRemote(Remaining(r.header, k - 1).str))

\* The vouching hops of the first k passes that are not flagged internal,
\* nearest first.
RECURSIVE ExpectedIps(_)
ExpectedIps(k) ==
    IF k = 0 THEN Null
    ELSE IF FlaggedInternal(HopAt(k - 1)) THEN ExpectedIps(k - 1)
    ELSE Listed(ExpectedIps(k - 1), HopAt(k - 1))

\* C12: the consumed proxies are the vouching hops not flagged internal in
\* nearest-to-farthest order: the physical peer first, then each promoted
\* address in the order of the header's fields from the right.  With a
\* trusted external peer P and the header "C,Q", Q a trusted external
\* proxy, the client address is C and the consumed proxies are P, Q.
C12_NearestFirst ==
    /\ (r.header # Null /\ pc \in {"walk", "post", "ditto", "done"})
            => proxy_ips = ExpectedIps(iter)
    /\ (r.header # Null /\ pc = "done" /\ iter > 0 /\ status = "OK")
            => r.note = ExpectedIps(iter)
    /\ (pc = "done" /\ halt.why # "ditto"
            /\ r.header = Str(<<"C", Comma, "Q">>) /\ peer = AddrP
            /\ Trusted(AddrP) /\ ~FlaggedInternal(AddrP)
            /\ Trusted(AddrQ) /\ ~FlaggedInternal(AddrQ))
            => /\ c.client_addr.sa = AddrC
               /\ r.note = Str(<<"P", Comma, Space, "Q">>)

\* The walk of the header "C,Q" from the trusted external peer P has ended.
C12_Witness ==
    /\ pc = "done"
    /\ halt.why = "exhausted"
    /\ r.header = Str(<<"C", Comma, "Q">>)
    /\ peer = AddrP
    /\ ~FlaggedInternal(AddrP)
    /\ ~FlaggedInternal(AddrQ)
    /\ r.note = Str(<<"P", Comma, Space, "Q">>)
    /\ c.client_addr.sa = AddrC

----------------------------------------------------------------------------
(* C13 *)

\* C13: a request that returns with the connection's address changed, by
\* a promotion or by the revert to the physical peer's own, returns with
\* the connection's cached host name cleared.
C13_HostNameClearedOnChange ==
    (pc = "done" /\ entry # Null
        /\ c.client_addr.sa # entry.c.client_addr.sa)
    => c.remote_host = Null

----------------------------------------------------------------------------
(* C14 *)

\* C14: when the field a pass cuts off is empty once trimmed, the walk
\* stops without a promotion and the unconsumed remainder is, character for
\* character, what was left of the header before the field was cut off,
\* whether the field follows a comma or is all that was left.
C14_EmptyFieldRestoredVerbatim ==
    (halt.why = "empty" /\ pc \in {"post", "ditto", "done"})
    => /\ remote = halt.before
       /\ iter = halt.pass
       /\ c.client_addr.sa = halt.hop
       /\ proxy_ips = halt.ips

----------------------------------------------------------------------------
(* C15 *)

\* C15: every pass of the walk takes the hop for untrusted exactly when no
\* entry of the list holds its address, and otherwise works with the
\* internal flag of the first entry, in configured order, that holds it,
\* whatever the entries after that one say.
C15_FirstMatchWins ==
    [][pc = "walk" =>
        IF Trusted(c.client_addr.sa)
        THEN /\ internal' = FlaggedInternal(c.client_addr.sa)
             /\ halt'.why \notin {"forbidden", "distrusted"}
        ELSE /\ halt'.why \in {"forbidden", "distrusted"}
             /\ internal' = internal]_vars

\* The peer is held by two entries whose flags differ, the first one
\* internal, and a field was promoted on the flag of the first.
C15_Witness ==
    /\ iter = 1
    /\ Cardinality(EntriesWith(peer)) = 2
    /\ config.proxymatch_ip[1].internal
    /\ ~config.proxymatch_ip[2].internal
    /\ internal
    /\ proxy_ips = Null
    /\ c.client_addr.sa = AddrX

----------------------------------------------------------------------------
(* C16 *)

\* The passes of the while loop this request has made: the promotions, and
\* the pass that left the loop body by a break or a return.
Iterations ==
    iter + (IF halt.why \in {"forbidden", "distrusted", "empty", "unparsed",
                             "private"} THEN 1 ELSE 0)

\* The number of fields left in `remote`.
FieldsLeft(rem) == IF rem = Null THEN 0 ELSE NumFields(rem)

\* C16: a pass through the handler ends; the while loop makes at most N + 1
\* passes over a header of N comma-separated fields, and each pass either
\* leaves the loop or takes exactly one field off what is left.
C16_BoundedWalk ==
    /\ [](r.header # Null => Iterations <= NumFields(r.header) + 1)
    /\ [][pc = "walk" =>
            \/ /\ pc' \in {"post", "done"}
               /\ halt'.why # "none"
               /\ iter' = iter
            \/ /\ iter' = iter + 1
               /\ FieldsLeft(remote') = FieldsLeft(remote) - 1]_vars
    /\ (pc \in {"walk", "post", "ditto"}) ~> (pc \in {"done", "crashed"})

\* A walk over a header of two fields made two passes: one promoted the
\* right field, the other stopped at the left one.
C16_Witness ==
    /\ pc = "done"
    /\ r.header # Null
    /\ NumFields(r.header) = 2
    /\ iter = 1
    /\ halt.why \in {"empty", "unparsed", "private"}
    /\ Iterations = 2

----------------------------------------------------------------------------
(* C17 *)

\* The address the handler leaves in c->client_addr when it runs on a
\* connection without a record and returns OK: the while loop from hop
\* `hop` over what is left in `rem`, `int` being the local `internal`,
\* `temp` what temp_sa points to and `promoted` whether a pass promoted.
\* At the end the fixups copy temp_sa when a pass promoted, and the
\* physical peer's address stays otherwise.
RECURSIVE UncachedWalk(_, _, _, _, _)
UncachedWalk(hop, rem, int, temp, promoted) ==
    LET match == config.proxymatch_ip
        out == IF promoted THEN temp ELSE peer
    IN  IF rem = Null THEN out
        ELSE IF Distrusted(match, hop) THEN out
        ELSE IF EmptyField(rem.str) THEN out
        ELSE LET sa == SockaddrInfoGet(ParseRemote(rem.str))
                 now == InternalAfter(match, hop, int)
             IN  IF sa = Null THEN out
                 ELSE IF ~now /\ PrivateOrNonsensical(sa)
                      THEN (IF promoted THEN sa ELSE peer)
                 ELSE UncachedWalk(sa, CutRemote(rem.str), now, sa, TRUE)

\* The same for a header value, absent or not.
Uncached(h) == UncachedWalk(peer, h, FALSE, peer, FALSE)

\* C17: after every request that is not rejected, whatever the requests
\* before it on the connection, the connection's address is the one the
\* handler computes for that request's header value on a connection
\* without a record; a request served from the record leaves the
\* connection's address equal to the recorded one.
C17_CacheTransparent ==
    (pc = "done" /\ status = "OK")
    => /\ c.client_addr.sa = Uncached(r.header)
       /\ halt.why = "ditto" => c.client_addr.sa = conn.proxied_addr

----------------------------------------------------------------------------
(* C18 *)

\* C18: a rejected request leaves nothing half done: the record a request
\* finds on its connection holds a header value and an address that the
\* fixups of a completed pass wrote, and a request that returns 403 leaves
\* the connection's address the physical peer's own.
C18_ForbiddenLeavesNothing ==
    /\ (entry # Null /\ entry.conn # Null)
            => /\ entry.conn.prior_remote # Uninit
               /\ entry.conn.proxied_addr # Uninit
    /\ (pc = "done" /\ status = "403")
            => c.client_addr = Ptr("orig", peer)

----------------------------------------------------------------------------
(* C19 *)

\* The fields of a string between its commas, each without the spaces
\* around it, from left to right.
RECURSIVE TokensOf(_)
TokensOf(s) ==
    IF CutRemote(s) = Null THEN <<ParseRemote(s)>>
    ELSE Append(TokensOf(CutRemote(s).str), ParseRemote(s))

\* The tokens of what the walk left unconsumed.
TokensLeft == IF remote = Null THEN <<>> ELSE TokensOf(remote.str)

\* C19: when a pass that is not rejected ends, the tokens of the header
\* are the tokens of the unconsumed remainder, in their order and with the
\* token that stopped the walk last, followed by the tokens the walk
\* promoted; the remainder is none exactly when every token was promoted,
\* and the last token promoted is the leftmost one taken.
C19_TokensConserved ==
    (r.header # Null /\ halt.why # "ditto"
        /\ (pc = "post" \/ (pc = "done" /\ status = "OK")))
    => LET all == TokensOf(r.header.str) IN
       /\ iter <= Len(all)
       /\ TokensLeft = SubSeq(all, 1, Len(all) - iter)
       /\ remote = Null <=> iter = Len(all)
       /\ iter > 0 => c.client_ip.str = all[Len(all) - iter + 1]

\* A walk promoted the right field of a padded header and stopped at the
\* left one, which holds spaces only.
C19_Witness ==
    /\ pc = "done"
    /\ status = "OK"
    /\ r.header = Str(<<Space, Space, Comma, Space, "Q">>)
    /\ iter = 1
    /\ halt.why = "empty"
    /\ TokensLeft = <<(<<>>)>>

----------------------------------------------------------------------------
(* C20 *)

\* C20: in a pass whose hop is held by an entry flagged internal, a field
\* that parses to a private address is not rejected: it is promoted, the
\* address becomes the connection's, and the walk goes on from it when
\* fields are left.
C20_InternalHopSkipsClassification ==
    [][(/\ pc = "walk"
        /\ Trusted(c.client_addr.sa)
        /\ FlaggedInternal(c.client_addr.sa)
        /\ SockaddrInfoGet(ParseRemote(remote.str)) # Null
        /\ PrivateOrNonsensical(SockaddrInfoGet(ParseRemote(remote.str))))
       => /\ c'.client_addr.sa = SockaddrInfoGet(ParseRemote(remote.str))
          /\ c'.client_ip =
                Str(<<IpText(SockaddrInfoGet(ParseRemote(remote.str)))>>)
          /\ iter' = iter + 1
          /\ halt'.why \in {"none", "exhausted"}
          /\ pc' = IF remote' = Null THEN "post" ELSE "walk"]_vars

\* From an internal peer the private address X was promoted, and the walk
\* went on from X to promote C.
C20_Witness ==
    /\ pc = "done"
    /\ status = "OK"
    /\ iter = 2
    /\ r.header = Str(<<"C", Comma, "X">>)
    /\ Trusted(peer)
    /\ FlaggedInternal(peer)
    /\ c.client_addr.sa = AddrC

----------------------------------------------------------------------------
(* C21 *)

\* The IPv4 ranges 10/8, 127/8, 169.254/16, 172.16/12 and 192.168/16, by
\* the first two bytes of an address.
InPrivateIPv4(a, b) ==
    \/ a = 10
    \/ a = 127
    \/ (a = 169 /\ b = 254)
    \/ (a = 172 /\ 16 <= b /\ b <= 31)
    \/ (a = 192 /\ b = 168)

\* 2000::/3 by the first byte of an address: its top three bits are 001.
InGlobalUnicastIPv6(a) == 32 <= a /\ a <= 63

\* C21: under a hop that is not internal, an IPv4 address a.b.c.d is
\* rejected as private exactly when it lies in 10/8, 127/8, 169.254/16,
\* 172.16/12 (a = 172 and 16 <= b <= 31) or 192.168/16, and an IPv6 address
\* exactly when the top three bits of its first byte are not 001.
C21_ClassifierRanges ==
    (pc = "classified" /\ ~internal)
    => /\ temp_sa.sa.family = "INET" =>
            (halt.why = "private"
                <=> InPrivateIPv4(temp_sa.sa.b0, temp_sa.sa.b1))
       /\ temp_sa.sa.family = "INET6" =>
            (halt.why = "private"
                <=> ~InGlobalUnicastIPv6(temp_sa.sa.b0))

\* The last address of 172.16/12 was classified and rejected.
C21_Witness ==
    /\ pc = "classified"
    /\ ~internal
    /\ temp_sa.sa = Sockaddr("INET", 172, 31)
    /\ halt.why = "private"

====
